---- MODULE Spec2Model ----
(***************************************************************************)
(* PollingServiceManager (tanker327/polling-service-manager).              *)
(*                                                                         *)
(* One manager instance: a registry of jobs, each driven through           *)
(* trigger -> poll (timer loop) -> complete by promise continuations and   *)
(* timer callbacks that run one at a time on the event loop.  Every action *)
(* below is one synchronous run of the code: a public method, or the part  *)
(* of an async function between two suspension points.                     *)
(***************************************************************************)
EXTENDS Integers, Sequences, FiniteSets, TLC

\* ---------------------------------------------------------------- bounds
\* options.maxRetryAttempts ranges over 0..MaxRetry.
MaxRetry == 1
\* The ids generateJobId hands out, in this order: the manager is followed over its
\* first two startJob calls.
JobIds == {1, 2}

\* ---------------------------------------------------------------- values
\* Optional fields (triggerResult?, pollResult?, ...) are sequences of
\* length <= 1: <<>> is undefined, <<v>> is the value v.
Undefined == <<>>
Some(v) == <<v>>

\* T = string: what triggerFn may resolve to.  "" is falsy in JavaScript.
TriggerValues == {"trk-1", ""}
FalsyT == {""}
\* U = number: what pollFn may report as result.  0 is falsy in JavaScript.
PollValues == {42, 0}
FalsyU == {0}
\* V = string: what completeFn may resolve to.
FinalValues == {"ok:42"}

\* !x for an optional field holding a T / a U
NotT(x) == x = Undefined \/ x[1] \in FalsyT
NotU(x) == x = Undefined \/ x[1] \in FalsyU

\* Thrown values / rejection reasons.  isError: value instanceof Error.
MkError(msg) == [isError |-> TRUE, name |-> "Error", message |-> msg]
PollingError(msg) == [isError |-> TRUE, name |-> "PollingError", message |-> msg]
PollingAbortError(msg) == [isError |-> TRUE, name |-> "PollingAbortError", message |-> msg]
\* a thrown non-Error value (here a string v); String(v) = v
NonError(v) == [isError |-> FALSE, name |-> "string", message |-> v]

\* error instanceof Error ? error : new Error(String(error))
ToError(e) == IF e.isError THEN e ELSE MkError(e.message)

TriggerThrows == {MkError("Trigger failed"), NonError("boom")}
PollThrows == {MkError("Polling failed"), PollingAbortError("Resource not found"), NonError("boom")}
CompleteThrows == {MkError("Completion failed"), NonError("boom")}
\* what a throwing onComplete / onError callback throws
CallbackError == MkError("Callback error")

TriggerUndefinedError == PollingError("Trigger result is undefined")
PollUndefinedError == PollingError("Poll result is undefined")
ExceededError(n) == PollingError("Exceeded maximum retry attempts (" \o ToString(n) \o ")")

\* { done: boolean, result?: U } as returned by pollFn
PollResponses ==
    {[done |-> d, result |-> r] : d \in BOOLEAN, r \in {Undefined} \cup {Some(v) : v \in PollValues}}

\* enum JobState
PENDING == "PENDING"
POLLING == "POLLING"
COMPLETED == "COMPLETED"
FAILED == "FAILED"
ABORTED == "ABORTED"
JobState == {PENDING, POLLING, COMPLETED, FAILED, ABORTED}

\* ----------------------------------------------------------------- state
VARIABLES
    maxRetryAttempts,  \* this.options.maxRetryAttempts
    jobs,              \* this.jobs: the ids that are keys of the Map
    job,               \* the Job objects ever created, by id (an object outlives
                       \* its registry entry: continuations hold a reference)
    timers,            \* per job, the handles of its pending setTimeout timers
    inflight,          \* per job, the number of pending triggerFn / pollFn /
                       \* completeFn promises
    calls,             \* per job, the invocations of the caller-supplied functions
    hist,              \* per job, what has happened to it (history, for the claims)
    nextId,            \* the number of startJob calls so far, plus one
    idGen              \* the id strings: see now, jobsById, returned

vars == <<maxRetryAttempts, jobs, job, timers, inflight, calls, hist, nextId, idGen>>

\* Date.now(), in milliseconds
now == idGen.now
\* this.jobs as startJob's ids key it: pairs <<id, n>>, the id mapped to the job
\* the n-th startJob call created
jobsById == idGen.jobsById
\* the ids startJob has returned, in call order
returned == idGen.returned

\* The mutable program state, as one value the operations transform.
S == [jobs |-> jobs, job |-> job, timers |-> timers, inflight |-> inflight, calls |-> calls]

Commit(s) ==
    /\ jobs' = s.jobs
    /\ job' = s.job
    /\ timers' = s.timers
    /\ inflight' = s.inflight
    /\ calls' = s.calls

Created == DOMAIN job

\* interface Job<T, U, V>, as startJob creates it.  onComplete, onError: whether
\* the callback is provided; throws: whether the callbacks provided throw when
\* they are called.
NewJob(jobId, onComplete, onError, throws) ==
    [id |-> jobId, state |-> PENDING, onComplete |-> onComplete, onError |-> onError,
     throws |-> throws,
     triggerResult |-> Undefined, pollResult |-> Undefined, finalResult |-> Undefined,
     retryCount |-> 0, error |-> Undefined, timerId |-> 0]

NoCalls == [trigger |-> 0, poll |-> <<>>, complete |-> <<>>, onComplete |-> <<>>, onError |-> <<>>]
NoInflight == [trigger |-> 0, poll |-> 0, complete |-> 0]
\* aborted: abortJob / abortAllJobs was applied to it; abortedLive: while PENDING or
\* POLLING; cleaned: cleanupJob removed it; trigger: "pending", "resolved" or
\* "failed"; notDone / doneNoResult: poll responses with done = false / with done =
\* true and no result; doneResult: the result of a poll response with done = true;
\* xThrown: the value stage x threw or rejected with; completeResolved: the value
\* completeFn resolved to.
NoHist == [aborted |-> FALSE, abortedLive |-> FALSE, cleaned |-> FALSE,
           trigger |-> "pending", triggerThrown |-> Undefined,
           notDone |-> 0, doneNoResult |-> 0, doneResult |-> Undefined,
           pollThrown |-> Undefined,
           completeThrown |-> Undefined, completeResolved |-> Undefined]

Init ==
    /\ maxRetryAttempts \in 0..MaxRetry
    /\ jobs = {}
    /\ job = <<>>
    /\ timers = <<>>
    /\ inflight = <<>>
    /\ calls = <<>>
    /\ hist = <<>>
    /\ nextId = 1
    /\ idGen = [now |-> 0, jobsById |-> {}, returned |-> <<>>]

\* ------------------------------------------------------- internal steps

\* job.onError(error) / job.onComplete(result): the call is made; thrown is what
\* it throws, Undefined when it returns.
callOnError(s, jobId, error) ==
    [s |-> [s EXCEPT !.calls[jobId].onError = Append(@, error)],
     thrown |-> IF s.job[jobId].throws THEN Some(CallbackError) ELSE Undefined]

callOnComplete(s, jobId, result) ==
    [s |-> [s EXCEPT !.calls[jobId].onComplete = Append(@, result)],
     thrown |-> IF s.job[jobId].throws THEN Some(CallbackError) ELSE Undefined]

\* Mutant of handleJobError: a PollingAbortError makes the job ABORTED.
handleJobError_AbortErrorAborts(s, jobId, error) ==
    IF jobId \notin s.jobs
    THEN s
    ELSE LET s1 == [s EXCEPT !.job[jobId].state =
                                 IF error.name = "PollingAbortError" THEN ABORTED ELSE FAILED,
                             !.job[jobId].error = Some(error)]
         IN  IF s1.job[jobId].onError
             THEN callOnError(s1, jobId, error).s
             ELSE s1

\* Mutant of handleJobError: the error is passed to onError but not stored.
handleJobError_ForgetsError(s, jobId, error) ==
    IF jobId \notin s.jobs
    THEN s
    ELSE LET s1 == [s EXCEPT !.job[jobId].state = FAILED]
         IN  IF s1.job[jobId].onError
             THEN callOnError(s1, jobId, error).s
             ELSE s1

\* handleJobError(jobId, error)
handleJobError(s, jobId, error) ==
    IF jobId \notin s.jobs
    THEN s
    ELSE LET s1 == [s EXCEPT !.job[jobId].state = FAILED,
                             !.job[jobId].error = Some(error)]
         IN  IF s1.job[jobId].onError
             THEN LET r == callOnError(s1, jobId, error)
                  IN  \* catch (callbackError): logged, nothing else
                      IF r.thrown # Undefined THEN r.s ELSE r.s
             ELSE s1

\* Mutant of executeJobPolling: no timer is set.
executeJobPolling_SetsNoTimer(s, jobId) == s

\* Mutant of executeJobPolling: the timer is set whatever the state of the job.
executeJobPolling_AnyState(s, jobId) ==
    IF jobId \notin s.jobs
    THEN s
    ELSE LET h == s.job[jobId].timerId + 1
         IN  [s EXCEPT !.job[jobId].timerId = h,
                       !.timers[jobId] = @ \cup {h}]

\* executeJobPolling(jobId), up to and including setTimeout
executeJobPolling(s, jobId) ==
    IF jobId \notin s.jobs \/ s.job[jobId].state # POLLING
    THEN s
    ELSE LET h == s.job[jobId].timerId + 1
         IN  [s EXCEPT !.job[jobId].timerId = h,
                       !.timers[jobId] = @ \cup {h}]

\* executeJobCompletion(jobId), up to its await.  sync: what the completeFn call
\* does at once: Undefined = it returns a promise, Some(e) = it throws e.
executeJobCompletion(s, jobId, sync) ==
    IF jobId \notin s.jobs
    THEN s
    ELSE IF NotU(s.job[jobId].pollResult)
    THEN handleJobError(s, jobId, ToError(PollUndefinedError))
    ELSE LET s1 == [s EXCEPT !.calls[jobId].complete = Append(@, s.job[jobId].pollResult[1])]
         IN  IF sync # Undefined
             THEN handleJobError(s1, jobId, ToError(sync[1]))
             ELSE [s1 EXCEPT !.inflight[jobId].complete = @ + 1]

\* Mutant of completeResolved: onComplete is called without a try / catch of its own,
\* so what it throws reaches the catch of executeJobCompletion.
completeResolved_NoInnerCatch(s, jobId, v) ==
    LET s1 == [s EXCEPT !.inflight[jobId].complete = @ - 1,
                        !.job[jobId].finalResult = Some(v),
                        !.job[jobId].state = COMPLETED]
    IN  IF s1.job[jobId].onComplete
        THEN LET r == callOnComplete(s1, jobId, v)
             IN  IF r.thrown # Undefined
                 THEN handleJobError(r.s, jobId, ToError(r.thrown[1]))
                 ELSE r.s
        ELSE s1

\* executeJobCompletion after `await job.completeFn(...)` resolved with v
completeResolved(s, jobId, v) ==
    LET s1 == [s EXCEPT !.inflight[jobId].complete = @ - 1,
                        !.job[jobId].finalResult = Some(v),
                        !.job[jobId].state = COMPLETED]
    IN  IF s1.job[jobId].onComplete
        THEN LET r == callOnComplete(s1, jobId, v)
             IN  \* catch (callbackError): logged, nothing else
                 IF r.thrown # Undefined THEN r.s ELSE r.s
        ELSE s1

\* Mutant of completeRejected: a rejected completeFn is taken for a completion.
completeRejected_StillCompletes(s, jobId, e) ==
    [s EXCEPT !.inflight[jobId].complete = @ - 1,
              !.job[jobId].state = COMPLETED]

\* executeJobCompletion after `await job.completeFn(...)` rejected with e
completeRejected(s, jobId, e) ==
    handleJobError([s EXCEPT !.inflight[jobId].complete = @ - 1], jobId, ToError(e))

\* Mutant of executeJobTrigger: the polling is set up without awaiting the trigger.
executeJobTrigger_NoAwait(s, jobId, sync) ==
    IF jobId \notin s.jobs
    THEN s
    ELSE LET s1 == [s EXCEPT !.job[jobId].state = POLLING,
                             !.calls[jobId].trigger = @ + 1]
         IN  IF sync # Undefined
             THEN handleJobError(s1, jobId, ToError(sync[1]))
             ELSE executeJobPolling([s1 EXCEPT !.inflight[jobId].trigger = @ + 1], jobId)

\* executeJobTrigger(jobId), up to its await.  sync as for executeJobCompletion.
executeJobTrigger(s, jobId, sync) ==
    IF jobId \notin s.jobs
    THEN s
    ELSE LET s1 == [s EXCEPT !.job[jobId].state = POLLING,
                             !.calls[jobId].trigger = @ + 1]
         IN  IF sync # Undefined
             THEN handleJobError(s1, jobId, ToError(sync[1]))
             ELSE [s1 EXCEPT !.inflight[jobId].trigger = @ + 1]

\* Mutant of triggerResolved: the polling is started twice.
triggerResolved_SchedulesTwice(s, jobId, v) ==
    executeJobPolling(
        executeJobPolling([s EXCEPT !.inflight[jobId].trigger = @ - 1,
                                    !.job[jobId].triggerResult = Some(v)], jobId),
        jobId)

\* Mutant of triggerResolved: pollFn is called at once, without a timer.
triggerResolved_PollsAtOnce(s, jobId, v) ==
    LET s1 == [s EXCEPT !.inflight[jobId].trigger = @ - 1,
                        !.job[jobId].triggerResult = Some(v)]
    IN  IF jobId \notin s1.jobs \/ s1.job[jobId].state # POLLING
        THEN s1
        ELSE [s1 EXCEPT !.calls[jobId].poll = Append(@, v),
                        !.inflight[jobId].poll = @ + 1]

\* executeJobTrigger after `await job.triggerFn()` resolved with v
triggerResolved(s, jobId, v) ==
    executeJobPolling([s EXCEPT !.inflight[jobId].trigger = @ - 1,
                                !.job[jobId].triggerResult = Some(v)], jobId)

\* Mutant of triggerRejected: the catch passes the rejection value on as it is.
triggerRejected_NoWrap(s, jobId, e) ==
    handleJobError([s EXCEPT !.inflight[jobId].trigger = @ - 1], jobId, e)

\* executeJobTrigger after `await job.triggerFn()` rejected with e
triggerRejected(s, jobId, e) ==
    handleJobError([s EXCEPT !.inflight[jobId].trigger = @ - 1], jobId, ToError(e))

\* The setTimeout callback of executeJobPolling, up to its await: timer h of the
\* job fires.  sync: what the pollFn call does at once.
timerCallback(s, jobId, h, sync) ==
    LET s0 == [s EXCEPT !.timers[jobId] = @ \ {h}]
    IN  IF NotT(s0.job[jobId].triggerResult)
        THEN handleJobError(s0, jobId, ToError(TriggerUndefinedError))
        ELSE LET s1 == [s0 EXCEPT !.calls[jobId].poll = Append(@, s0.job[jobId].triggerResult[1])]
             IN  IF sync # Undefined
                 THEN handleJobError(s1, jobId, ToError(sync[1]))
                 ELSE [s1 EXCEPT !.inflight[jobId].poll = @ + 1]

\* Mutant of pollResolved: done = true alone ends the polling.
pollResolved_DoneMeansDone(s, jobId, pollResponse, csync) ==
    LET s0 == [s EXCEPT !.inflight[jobId].poll = @ - 1]
    IN  IF pollResponse.done
        THEN executeJobCompletion([s0 EXCEPT !.job[jobId].pollResult = pollResponse.result],
                                  jobId, csync)
        ELSE LET s1 == [s0 EXCEPT !.job[jobId].retryCount = @ + 1]
             IN  IF s1.job[jobId].retryCount > maxRetryAttempts
                 THEN handleJobError(s1, jobId, ToError(ExceededError(maxRetryAttempts)))
                 ELSE executeJobPolling(s1, jobId)

\* Mutant of pollResolved: after a response done with a result the polling goes on.
pollResolved_KeepsPolling(s, jobId, pollResponse, csync) ==
    LET s0 == [s EXCEPT !.inflight[jobId].poll = @ - 1]
    IN  IF pollResponse.done /\ pollResponse.result # Undefined
        THEN executeJobPolling(
                 executeJobCompletion([s0 EXCEPT !.job[jobId].pollResult = pollResponse.result],
                                      jobId, csync),
                 jobId)
        ELSE LET s1 == [s0 EXCEPT !.job[jobId].retryCount = @ + 1]
             IN  IF s1.job[jobId].retryCount > maxRetryAttempts
                 THEN handleJobError(s1, jobId, ToError(ExceededError(maxRetryAttempts)))
                 ELSE executeJobPolling(s1, jobId)

\* The setTimeout callback after `await job.pollFn(...)` resolved with pollResponse.
\* csync: what a completeFn call made in this step does at once.
pollResolved(s, jobId, pollResponse, csync) ==
    LET s0 == [s EXCEPT !.inflight[jobId].poll = @ - 1]
    IN  IF pollResponse.done /\ pollResponse.result # Undefined
        THEN executeJobCompletion([s0 EXCEPT !.job[jobId].pollResult = pollResponse.result],
                                  jobId, csync)
        ELSE LET s1 == [s0 EXCEPT !.job[jobId].retryCount = @ + 1]
             IN  IF s1.job[jobId].retryCount > maxRetryAttempts
                 THEN handleJobError(s1, jobId, ToError(ExceededError(maxRetryAttempts)))
                 ELSE executeJobPolling(s1, jobId)

\* Mutant of pollRejected: a failed poll counts as a retry and polling goes on.
pollRejected_Retries(s, jobId, e) ==
    executeJobPolling([s EXCEPT !.inflight[jobId].poll = @ - 1,
                                !.job[jobId].retryCount = @ + 1], jobId)

\* The setTimeout callback after `await job.pollFn(...)` rejected with e
pollRejected(s, jobId, e) ==
    handleJobError([s EXCEPT !.inflight[jobId].poll = @ - 1], jobId, ToError(e))

\* ----------------------------------------------------------- public API

\* generateJobId(): here the ids are taken to be pairwise distinct, the n-th call
\* yields n; SpecIds follows the id strings as they are computed.
generateJobId == nextId

\* startJob(triggerFn, pollFn, completeFn, onComplete?, onError?)
\* onComplete, onError, throws: as for NewJob.
startJob(s, jobId, onComplete, onError, throws, sync) ==
    LET s1 == [jobs |-> s.jobs \cup {jobId},
               job |-> Append(s.job, NewJob(jobId, onComplete, onError, throws)),
               timers |-> Append(s.timers, {}),
               inflight |-> Append(s.inflight, NoInflight),
               calls |-> Append(s.calls, NoCalls)]
    IN  [s |-> executeJobTrigger(s1, jobId, sync), ret |-> jobId]

\* Mutant of abortJob: the clearTimeout is missing.
abortJob_NoClearTimeout(s, jobId) ==
    IF jobId \notin s.jobs
    THEN [s |-> s, ret |-> FALSE]
    ELSE [s |-> [s EXCEPT !.job[jobId].state = ABORTED], ret |-> TRUE]

\* Mutant of abortJob: an unknown id is reported as aborted.
abortJob_UnknownReturnsTrue(s, jobId) ==
    IF jobId \notin s.jobs
    THEN [s |-> s, ret |-> TRUE]
    ELSE LET s1 == IF s.job[jobId].timerId # 0
                   THEN [s EXCEPT !.timers[jobId] = @ \ {s.job[jobId].timerId}]
                   ELSE s
         IN  [s |-> [s1 EXCEPT !.job[jobId].state = ABORTED], ret |-> TRUE]

\* Mutant of abortJob: the abort is reported through onError.
abortJob_CallsOnError(s, jobId) ==
    IF jobId \notin s.jobs
    THEN [s |-> s, ret |-> FALSE]
    ELSE LET s1 == IF s.job[jobId].timerId # 0
                   THEN [s EXCEPT !.timers[jobId] = @ \ {s.job[jobId].timerId}]
                   ELSE s
             s2 == handleJobError(s1, jobId, PollingAbortError("Job aborted"))
         IN  [s |-> [s2 EXCEPT !.job[jobId].state = ABORTED], ret |-> TRUE]

\* Mutant of abortJob: the timers of all jobs are cleared.
abortJob_AllTimers(s, jobId) ==
    IF jobId \notin s.jobs
    THEN [s |-> s, ret |-> FALSE]
    ELSE [s |-> [s EXCEPT !.timers = [i \in DOMAIN s.timers |-> {}],
                          !.job[jobId].state = ABORTED],
          ret |-> TRUE]

\* abortJob(jobId)
abortJob(s, jobId) ==
    IF jobId \notin s.jobs
    THEN [s |-> s, ret |-> FALSE]
    ELSE LET s1 == IF s.job[jobId].timerId # 0
                   THEN [s EXCEPT !.timers[jobId] = @ \ {s.job[jobId].timerId}]
                   ELSE s
         IN  [s |-> [s1 EXCEPT !.job[jobId].state = ABORTED], ret |-> TRUE]

\* for (const jobId of keys) this.abortJob(jobId): keys in insertion order,
\* which is increasing id order
RECURSIVE abortEach(_, _)
abortEach(s, keys) ==
    IF keys = {}
    THEN s
    ELSE LET k == CHOOSE x \in keys : \A y \in keys : x <= y
         IN  abortEach(abortJob(s, k).s, keys \ {k})

\* Mutant of abortAllJobs: the loop stops after the first key.
abortAllJobs_FirstOnly(s) ==
    IF s.jobs = {}
    THEN s
    ELSE abortJob(s, CHOOSE x \in s.jobs : \A y \in s.jobs : x <= y).s

\* abortAllJobs()
abortAllJobs(s) == abortEach(s, s.jobs)

\* getJobState(jobId): Undefined stands for null
getJobState(s, jobId) ==
    IF jobId \in s.jobs THEN Some(s.job[jobId].state) ELSE Undefined

\* Mutant of cleanupJob: the whole registry is cleared.
cleanupJob_ClearsAll(s, jobId) ==
    IF jobId \notin s.jobs
    THEN [s |-> s, ret |-> FALSE]
    ELSE LET s1 == IF s.job[jobId].state = POLLING THEN abortJob(s, jobId).s ELSE s
         IN  [s |-> [s1 EXCEPT !.jobs = {}], ret |-> TRUE]

\* Mutant of cleanupJob: the entry is removed without aborting the job first.
cleanupJob_NoAbort(s, jobId) ==
    IF jobId \notin s.jobs
    THEN [s |-> s, ret |-> FALSE]
    ELSE [s |-> [s EXCEPT !.jobs = @ \ {jobId}], ret |-> TRUE]

\* cleanupJob(jobId)
cleanupJob(s, jobId) ==
    IF jobId \notin s.jobs
    THEN [s |-> s, ret |-> FALSE]
    ELSE LET s1 == IF s.job[jobId].state = POLLING THEN abortJob(s, jobId).s ELSE s
         IN  [s |-> [s1 EXCEPT !.jobs = @ \ {jobId}], ret |-> TRUE]

\* getAllJobs(): the array, in insertion (= id) order
RECURSIVE jobInfos(_, _)
jobInfos(s, keys) ==
    IF keys = {}
    THEN <<>>
    ELSE LET k == CHOOSE x \in keys : \A y \in keys : x <= y
         IN  <<[id |-> s.job[k].id, state |-> s.job[k].state]>> \o jobInfos(s, keys \ {k})

\* getAllJobs, listing every job ever created.
getAllJobs_AllCreated(s) == jobInfos(s, DOMAIN s.job)

getAllJobs(s) == jobInfos(s, s.jobs)

\* A call of getJobState, of getAllJobs: the state it leaves and the value it
\* returns.  Neither assigns to a field, clears or sets a timer, or calls a
\* function of the caller.
getJobStateCall_AbortsPolling(s, jobId) ==
    [s |-> IF jobId \in s.jobs /\ s.job[jobId].state = POLLING THEN abortJob(s, jobId).s ELSE s,
     ret |-> getJobState(s, jobId)]

getJobStateCall(s, jobId) == [s |-> s, ret |-> getJobState(s, jobId)]

getAllJobsCall(s) == [s |-> s, ret |-> getAllJobs(s)]

\* ---------------------------------------------------------------- actions
\* Ids a caller may pass: an id is unknown to the manager before startJob has
\* returned it and after cleanupJob has removed it.
ApiIds == JobIds

SyncThrow(E) == {Undefined} \cup {Some(e) : e \in E}

\* The optional callbacks a caller passes to startJob: both, or neither.
Callbacks == {[onComplete |-> b, onError |-> b, throws |-> FALSE] : b \in BOOLEAN}
\* The same, with callbacks that throw when they are called.
ThrowingCallbacks == {[onComplete |-> b, onError |-> b, throws |-> b] : b \in BOOLEAN}

\* The jobs with a promise of the given stage pending: its continuation can run.
Pending(stage) == {id \in Created : inflight[id][stage] > 0}

\* The id strings are followed apart from the jobs, see SpecIds.
Keep == UNCHANGED <<maxRetryAttempts, nextId, idGen>>

StartJobWith(callbacks) ==
    /\ nextId \in JobIds
    /\ \E cb \in callbacks, sync \in SyncThrow(TriggerThrows) :
          /\ Commit(startJob(S, generateJobId, cb.onComplete, cb.onError, cb.throws, sync).s)
          /\ hist' = Append(hist, [NoHist EXCEPT !.trigger = IF sync = Undefined THEN "pending" ELSE "failed",
                                                 !.triggerThrown = sync])
    /\ nextId' = nextId + 1
    /\ UNCHANGED <<maxRetryAttempts, idGen>>

StartJob == StartJobWith(Callbacks)

StartJobThrowing == StartJobWith(ThrowingCallbacks)

TriggerResolve ==
    \E id \in Pending("trigger"), v \in TriggerValues :
        /\ Commit(triggerResolved(S, id, v))
        /\ hist' = [hist EXCEPT ![id].trigger = "resolved"]
        /\ Keep

TriggerReject ==
    \E id \in Pending("trigger"), e \in TriggerThrows :
        /\ Commit(triggerRejected(S, id, e))
        /\ hist' = [hist EXCEPT ![id].trigger = "failed", ![id].triggerThrown = Some(e)]
        /\ Keep

TimerFire ==
    \E id \in Created, sync \in SyncThrow(PollThrows) :
        \E h \in timers[id] :
            /\ Commit(timerCallback(S, id, h, sync))
            /\ hist' = IF sync # Undefined /\ ~NotT(job[id].triggerResult)
                       THEN [hist EXCEPT ![id].pollThrown = sync]
                       ELSE hist
            /\ Keep

PollResolve ==
    \E id \in Pending("poll"), r \in PollResponses :
      \E csync \in IF r.done /\ r.result # Undefined
                   THEN SyncThrow(CompleteThrows)
                   ELSE {Undefined} :
        /\ Commit(pollResolved(S, id, r, csync))
        /\ hist' = [hist EXCEPT
                      ![id].notDone = IF ~r.done THEN @ + 1 ELSE @,
                      ![id].doneNoResult = IF r.done /\ r.result = Undefined THEN @ + 1 ELSE @,
                      ![id].doneResult = IF r.done /\ r.result # Undefined THEN r.result ELSE @,
                      ![id].completeThrown =
                          IF Len(calls'[id].complete) > Len(calls[id].complete) THEN csync ELSE @]
        /\ Keep

PollReject ==
    \E id \in Pending("poll"), e \in PollThrows :
        /\ Commit(pollRejected(S, id, e))
        /\ hist' = [hist EXCEPT ![id].pollThrown = Some(e)]
        /\ Keep

CompleteResolve ==
    \E id \in Pending("complete"), v \in FinalValues :
        /\ Commit(completeResolved(S, id, v))
        /\ hist' = [hist EXCEPT ![id].completeResolved = Some(v)]
        /\ Keep

CompleteReject ==
    \E id \in Pending("complete"), e \in CompleteThrows :
        /\ Commit(completeRejected(S, id, e))
        /\ hist' = [hist EXCEPT ![id].completeThrown = Some(e)]
        /\ Keep

AbortJob ==
    \E id \in ApiIds :
        /\ Commit(abortJob(S, id).s)
        /\ hist' = IF id \in jobs
                   THEN [hist EXCEPT ![id].aborted = TRUE,
                                     ![id].abortedLive = @ \/ job[id].state \in {PENDING, POLLING}]
                   ELSE hist
        /\ Keep

AbortAllJobs ==
    /\ Commit(abortAllJobs(S))
    /\ hist' = [id \in DOMAIN hist |->
                  IF id \in jobs
                  THEN [hist[id] EXCEPT !.aborted = TRUE,
                                        !.abortedLive = @ \/ job[id].state \in {PENDING, POLLING}]
                  ELSE hist[id]]
    /\ Keep

CleanupJob ==
    \E id \in ApiIds :
        /\ Commit(cleanupJob(S, id).s)
        /\ hist' = IF id \in jobs THEN [hist EXCEPT ![id].cleaned = TRUE] ELSE hist
        /\ Keep

GetJobState ==
    \E id \in ApiIds :
        LET r == getJobStateCall(S, id)
        IN  /\ r.ret \in {Undefined} \cup {Some(st) : st \in JobState}
            /\ Commit(r.s)
            /\ UNCHANGED hist
            /\ Keep

GetAllJobs ==
    LET r == getAllJobsCall(S)
    IN  /\ Len(r.ret) = Cardinality(jobs)
        /\ Commit(r.s)
        /\ UNCHANGED hist
        /\ Keep

Next ==
    \/ StartJob
    \/ TriggerResolve
    \/ TriggerReject
    \/ TimerFire
    \/ PollResolve
    \/ PollReject
    \/ CompleteResolve
    \/ CompleteReject
    \/ AbortJob
    \/ AbortAllJobs
    \/ CleanupJob
    \/ GetJobState
    \/ GetAllJobs

Spec == Init /\ [][Next]_vars

\* The same manager used with callbacks that throw.
NextThrowing ==
    \/ StartJobThrowing
    \/ TriggerResolve
    \/ TriggerReject
    \/ TimerFire
    \/ PollResolve
    \/ PollReject
    \/ CompleteResolve
    \/ CompleteReject
    \/ AbortJob
    \/ AbortAllJobs
    \/ CleanupJob
    \/ GetJobState
    \/ GetAllJobs

SpecThrowing == Init /\ [][NextThrowing]_vars

\* The same manager, each job started with onError and without onComplete.
OnErrorOnly == {[onComplete |-> FALSE, onError |-> TRUE, throws |-> FALSE]}

StartJobOnError == StartJobWith(OnErrorOnly)

NextOnError ==
    \/ StartJobOnError
    \/ TriggerResolve
    \/ TriggerReject
    \/ TimerFire
    \/ PollResolve
    \/ PollReject
    \/ CompleteResolve
    \/ CompleteReject
    \/ AbortJob
    \/ AbortAllJobs
    \/ CleanupJob
    \/ GetJobState
    \/ GetAllJobs

SpecOnError == Init /\ [][NextOnError]_vars

\* The manager whose caller never calls abortJob, abortAllJobs or cleanupJob,
\* on an event loop that serves it: a pending trigger, poll or complete call
\* returns or fails in the end, and a pending timer fires in the end.
NextLive ==
    \/ StartJob
    \/ TriggerResolve
    \/ TriggerReject
    \/ TimerFire
    \/ PollResolve
    \/ PollReject
    \/ CompleteResolve
    \/ CompleteReject
    \/ GetJobState
    \/ GetAllJobs

SpecLive ==
    /\ Init
    /\ [][NextLive]_vars
    /\ WF_vars(TriggerResolve \/ TriggerReject)
    /\ WF_vars(TimerFire)
    /\ WF_vars(PollResolve \/ PollReject)
    /\ WF_vars(CompleteResolve \/ CompleteReject)

\* ------------------------------------------------------------ the job ids
\* The ids as generateJobId computes them, and the Map as startJob and cleanupJob
\* key it by them.  Date.now() and Math.random() are the environment's: any value
\* of the clock that is not earlier than the last one, any random part.
\* Date.now() ranges over 0..MaxNow; the manager is followed over MaxStarts calls
\* of startJob.
MaxNow == 2
MaxStarts == 3
\* Math.random().toString(36).slice(2, 9)
RandomParts == {"4fzyo82", "k1x9q0c"}

\* `job_${Date.now()}_${Math.random().toString(36).slice(2, 9)}`
jobIdString(t, r) == "job_" \o ToString(t) \o "_" \o r

\* this.jobs.has(jobId)
registered(m, jobId) == \E e \in m : e[1] = jobId

\* this.jobs.set(jobId, job): an entry under the same key is replaced.
mapSet(m, jobId, n) == {e \in m : e[1] # jobId} \cup {<<jobId, n>>}

\* this.jobs.delete(jobId)
mapDelete(m, jobId) == {e \in m : e[1] # jobId}

\* The jobs and their steps stay as they are.
KeepJobs == UNCHANGED <<maxRetryAttempts, jobs, job, timers, inflight, calls, hist, nextId>>

\* The clock moves on between two calls.
Tick ==
    /\ now < MaxNow
    /\ idGen' = [idGen EXCEPT !.now = @ + 1]
    /\ KeepJobs

\* startJob: the id it generates, the entry it stores and the id it returns.
StartJobId ==
    /\ Len(returned) < MaxStarts
    /\ \E r \in RandomParts :
          LET jobId == jobIdString(now, r)
          IN  idGen' = [idGen EXCEPT !.jobsById = mapSet(@, jobId, Len(returned) + 1),
                                     !.returned = Append(@, jobId)]
    /\ KeepJobs

\* cleanupJob of a registered id: the entry it deletes.
CleanupJobId ==
    /\ \E e \in jobsById : idGen' = [idGen EXCEPT !.jobsById = mapDelete(@, e[1])]
    /\ KeepJobs

NextIds ==
    \/ Tick
    \/ StartJobId
    \/ CleanupJobId

SpecIds == Init /\ [][NextIds]_vars

\* ----------------------------------------------------------------- claims
\* No timer of the job is pending and none of its calls is in flight: nothing
\* further happens to the job unless the caller acts.
Quiescent(id) == timers[id] = {} /\ inflight[id] = NoInflight

\* Neither abortJob / abortAllJobs nor cleanupJob was ever applied to the job.
Undisturbed(id) == ~hist[id].aborted /\ ~hist[id].cleaned

\* C1: once abortJob has been applied to a job that was PENDING or POLLING, no step
\* invokes completeFn, onComplete or pollFn for that job.
C1_NoCallsAfterAbort ==
    [][\A id \in DOMAIN job :
          hist[id].abortedLive =>
              /\ calls'[id].complete = calls[id].complete
              /\ calls'[id].onComplete = calls[id].onComplete
              /\ calls'[id].poll = calls[id].poll]_vars

\* C2: a job in COMPLETED, FAILED or ABORTED keeps its state in every step, except
\* that a step may set it to ABORTED (which only abortJob does).
C2_TerminalIsFinal ==
    [][\A id \in DOMAIN job :
          job[id].state \in {COMPLETED, FAILED, ABORTED} =>
              job'[id].state \in {job[id].state, ABORTED}]_vars

\* C3: a job whose trigger succeeded, whose poll calls all reported done = false,
\* that was never aborted or cleaned up and has nothing left to run, had pollFn
\* invoked maxRetryAttempts + 1 times, is FAILED, had onError invoked once with
\* the retry-ceiling error, and never had completeFn invoked.
C3_CeilingAfterNPlusOnePolls ==
    \A id \in DOMAIN job :
        ( /\ hist[id].trigger = "resolved"
          /\ Undisturbed(id)
          /\ hist[id].pollThrown = Undefined
          /\ hist[id].doneNoResult = 0
          /\ hist[id].doneResult = Undefined
          /\ Quiescent(id) )
        => /\ Len(calls[id].poll) = maxRetryAttempts + 1
           /\ job[id].state = FAILED
           /\ job[id].onError => calls[id].onError = <<ExceededError(maxRetryAttempts)>>
           /\ calls[id].complete = <<>>

\* C4: a job whose trigger succeeded, whose poll calls reported done = false k
\* times (k <= maxRetryAttempts) and then done with a result r, whose completeFn did
\* not fail, that was never aborted or cleaned up and has nothing left to run, is
\* COMPLETED, had pollFn invoked k + 1 times, completeFn once with r, onComplete
\* once with the value completeFn resolved to, and onError never.
C4_HappyPath ==
    \A id \in DOMAIN job :
        ( /\ hist[id].trigger = "resolved"
          /\ Undisturbed(id)
          /\ hist[id].pollThrown = Undefined
          /\ hist[id].doneNoResult = 0
          /\ hist[id].notDone <= maxRetryAttempts
          /\ hist[id].doneResult # Undefined
          /\ hist[id].completeThrown = Undefined
          /\ Quiescent(id) )
        => /\ job[id].state = COMPLETED
           /\ Len(calls[id].poll) = hist[id].notDone + 1
           /\ calls[id].complete = hist[id].doneResult
           /\ hist[id].completeResolved # Undefined
           /\ job[id].onComplete => calls[id].onComplete = hist[id].completeResolved
           /\ calls[id].onError = <<>>

\* C5: abortJob on a registered job, whatever its state, returns true and leaves the
\* job ABORTED with no timer pending.
C5_AbortForcesAborted ==
    \A id \in jobs :
        LET r == abortJob(S, id)
        IN  /\ r.ret = TRUE
            /\ r.s.job[id].state = ABORTED
            /\ r.s.timers[id] = {}

\* C5 witness: a registered job was aborted while its first timer was pending (the
\* timer was set, its callback never ran, and it is no longer pending).
C5_Witness ==
    \E id \in jobs :
        /\ hist[id].abortedLive
        /\ job[id].state = ABORTED
        /\ job[id].timerId = 1
        /\ ~NotT(job[id].triggerResult)
        /\ calls[id].poll = <<>>
        /\ job[id].error = Undefined
        /\ timers[id] = {}

\* C6: abortJob on an id that is not in the registry returns false and leaves the
\* whole manager state (registry, job records, timers, calls) as it was.
C6_AbortUnknownIsNoop ==
    \A id \in ApiIds \ jobs :
        abortJob(S, id) = [s |-> S, ret |-> FALSE]

\* C6 witness: an id that was never registered, while another job is registered
\* with its timer pending; abortJob on the id answers false.
C6_Witness ==
    \E id \in ApiIds \ DOMAIN job :
        /\ \E other \in jobs : timers[other] # {} /\ job[other].state = POLLING
        /\ abortJob(S, id).ret = FALSE

\* C7: abortJob, on any id, invokes no callback and no caller-supplied function:
\* the invocation records of every job are the same after it as before.
C7_AbortInvokesNoCallback ==
    \A id \in ApiIds : abortJob(S, id).s.calls = calls

\* C7 witness: a job with both callbacks provided has been aborted and neither
\* callback has been invoked.
C7_Witness ==
    \E id \in jobs :
        /\ hist[id].aborted
        /\ job[id].state = ABORTED
        /\ job[id].onError /\ job[id].onComplete
        /\ calls[id].onError = <<>> /\ calls[id].onComplete = <<>>

\* All orders in which the ids of a set can be listed.
Orders(ids) ==
    {f \in [1..Cardinality(ids) -> ids] : \A i, j \in 1..Cardinality(ids) : f[i] = f[j] => i = j}

\* abortJob applied to the ids of a sequence, one after the other
RECURSIVE AbortInOrder(_, _)
AbortInOrder(s, order) ==
    IF order = <<>> THEN s ELSE AbortInOrder(abortJob(s, Head(order)).s, Tail(order))

\* C8: abortAllJobs leaves every registered job ABORTED with no timer pending, keeps
\* the registry's key set, and yields the state that abortJob called once per
\* registered id yields, in whatever order; and a job that was aborted never has a
\* timer pending again, so no timer invokes its pollFn.
C8_AbortAllIsAbortEach ==
    /\ LET r == abortAllJobs(S)
       IN  /\ r.jobs = jobs
           /\ \A id \in jobs : r.job[id].state = ABORTED /\ r.timers[id] = {}
           /\ \A order \in Orders(jobs) : r = AbortInOrder(S, order)
    /\ \A id \in DOMAIN job : hist[id].aborted => timers[id] = {}

\* C8 witness: two registered jobs, both aborted while live, both ABORTED; the
\* first timer of each was set and cancelled before it fired.
C8_Witness ==
    /\ Cardinality(jobs) = 2
    /\ \A id \in jobs :
          /\ hist[id].abortedLive
          /\ job[id].state = ABORTED
          /\ job[id].timerId = 1
          /\ ~NotT(job[id].triggerResult)
          /\ calls[id].poll = <<>>
          /\ job[id].error = Undefined
    /\ abortAllJobs(S) = S

\* C9 as stated: a job whose trigger call failed and that was never aborted or
\* cleaned up is FAILED, had onError invoked once with the very value the trigger
\* threw or rejected with, and never had pollFn or completeFn invoked.
C9_AsStated ==
    \A id \in DOMAIN job :
        (hist[id].trigger = "failed" /\ Undisturbed(id))
        => /\ job[id].state = FAILED
           /\ job[id].onError => calls[id].onError = hist[id].triggerThrown
           /\ calls[id].poll = <<>>
           /\ calls[id].complete = <<>>

\* C9 amended: as C9, but onError receives the value the trigger threw or rejected
\* with only when that is an Error; any other value v arrives as new
\* Error(String(v)), which is also what the job stores as its error.
C9_TriggerFailure ==
    \A id \in DOMAIN job :
        (hist[id].trigger = "failed" /\ Undisturbed(id))
        => /\ job[id].state = FAILED
           /\ job[id].error = Some(ToError(hist[id].triggerThrown[1]))
           /\ job[id].onError => calls[id].onError = <<ToError(hist[id].triggerThrown[1])>>
           /\ ~job[id].onError => calls[id].onError = <<>>
           /\ calls[id].poll = <<>>
           /\ calls[id].complete = <<>>
           /\ Quiescent(id)

\* C9 witness: a trigger rejected with a value that is not an Error, on a job with
\* onError provided that was never aborted or cleaned up.
C9_Witness ==
    \E id \in DOMAIN job :
        /\ hist[id].trigger = "failed" /\ Undisturbed(id)
        /\ job[id].onError
        /\ ~hist[id].triggerThrown[1].isError
        /\ Len(calls[id].onError) = 1

\* C10 as stated: a job one of whose poll calls failed and that was never aborted or
\* cleaned up is FAILED, had onError invoked once with the very value the poll threw
\* or rejected with, has no timer pending and no poll in flight, did not count the
\* failed attempt in retryCount, and never had completeFn invoked.
C10_AsStated ==
    \A id \in DOMAIN job :
        (hist[id].pollThrown # Undefined /\ Undisturbed(id))
        => /\ job[id].state = FAILED
           /\ job[id].onError => calls[id].onError = hist[id].pollThrown
           /\ timers[id] = {} /\ inflight[id].poll = 0
           /\ job[id].retryCount = hist[id].notDone + hist[id].doneNoResult
           /\ Len(calls[id].poll) = job[id].retryCount + 1
           /\ calls[id].complete = <<>>

\* C10 amended: as C10, but onError receives the value the poll threw or rejected
\* with only when that is an Error; any other value v arrives as new
\* Error(String(v)).
C10_PollFailure ==
    \A id \in DOMAIN job :
        (hist[id].pollThrown # Undefined /\ Undisturbed(id))
        => /\ job[id].state = FAILED
           /\ job[id].onError => calls[id].onError = <<ToError(hist[id].pollThrown[1])>>
           /\ ~job[id].onError => calls[id].onError = <<>>
           /\ timers[id] = {} /\ inflight[id].poll = 0
           /\ job[id].retryCount = hist[id].notDone + hist[id].doneNoResult
           /\ Len(calls[id].poll) = job[id].retryCount + 1
           /\ calls[id].complete = <<>>

\* C10 witness: after one poll that reported not done, the second poll call rejected
\* with a value that is not an Error, on a job with onError provided that was never
\* aborted or cleaned up.
C10_Witness ==
    \E id \in DOMAIN job :
        /\ hist[id].pollThrown # Undefined /\ Undisturbed(id)
        /\ ~hist[id].pollThrown[1].isError
        /\ job[id].onError
        /\ job[id].retryCount = 1
        /\ Len(calls[id].poll) = 2
        /\ Len(calls[id].onError) = 1

\* C11 as stated: a job whose completeFn call failed after a poll reported done with
\* a result, and that was never aborted or cleaned up, is FAILED, had onError
\* invoked once with the very value completeFn threw or rejected with, never had
\* onComplete invoked and has no finalResult.
C11_AsStated ==
    \A id \in DOMAIN job :
        (hist[id].completeThrown # Undefined /\ Undisturbed(id))
        => /\ job[id].state = FAILED
           /\ job[id].onError => calls[id].onError = hist[id].completeThrown
           /\ calls[id].onComplete = <<>>
           /\ job[id].finalResult = Undefined

\* C11 amended: as C11, but onError receives the value completeFn threw or rejected
\* with only when that is an Error; any other value v arrives as new
\* Error(String(v)), which is also what the job stores as its error.
C11_CompleteFailure ==
    \A id \in DOMAIN job :
        (hist[id].completeThrown # Undefined /\ Undisturbed(id))
        => /\ hist[id].doneResult # Undefined
           /\ calls[id].complete = hist[id].doneResult
           /\ job[id].state = FAILED
           /\ job[id].error = Some(ToError(hist[id].completeThrown[1]))
           /\ job[id].onError => calls[id].onError = <<ToError(hist[id].completeThrown[1])>>
           /\ ~job[id].onError => calls[id].onError = <<>>
           /\ calls[id].onComplete = <<>>
           /\ job[id].finalResult = Undefined
           /\ Quiescent(id)

\* C11 witness: completeFn, called with the result 42 of a poll that reported done,
\* rejected with a value that is not an Error, on a job with both callbacks provided
\* that was never aborted or cleaned up.
C11_Witness ==
    \E id \in DOMAIN job :
        /\ hist[id].completeThrown # Undefined /\ Undisturbed(id)
        /\ ~hist[id].completeThrown[1].isError
        /\ calls[id].complete = <<42>>
        /\ job[id].onError /\ job[id].onComplete
        /\ Len(calls[id].onError) = 1

\* C12: a poll response with done = true and no result is handled as the response
\* done = false is: the two yield the same state, with retryCount one higher and
\* completeFn not invoked; for a job still registered and POLLING the next timer is
\* set if the new retryCount is at most maxRetryAttempts, and otherwise the job is
\* FAILED with the retry-ceiling error passed to onError.  Hence a job all of whose
\* poll responses were of these two kinds, never aborted or cleaned up and with
\* nothing left to run, had pollFn invoked maxRetryAttempts + 1 times.
C12_DoneWithoutResultIsNotDone ==
    /\ \A id \in Pending("poll") :
          LET r == pollResolved(S, id, [done |-> TRUE, result |-> Undefined], Undefined)
              n == pollResolved(S, id, [done |-> FALSE, result |-> Undefined], Undefined)
          IN  /\ r = n
              /\ r.job[id].retryCount = job[id].retryCount + 1
              /\ r.calls[id].complete = calls[id].complete
              /\ r.inflight[id].complete = inflight[id].complete
              /\ r.job[id].pollResult = job[id].pollResult
              /\ (id \in jobs /\ job[id].state = POLLING) =>
                    IF r.job[id].retryCount <= maxRetryAttempts
                    THEN /\ Cardinality(r.timers[id]) = 1
                         /\ r.job[id].state = POLLING
                         /\ r.calls[id].onError = calls[id].onError
                    ELSE /\ r.timers[id] = {}
                         /\ r.job[id].state = FAILED
                         /\ r.job[id].error = Some(ExceededError(maxRetryAttempts))
                         /\ job[id].onError =>
                               r.calls[id].onError =
                                   Append(calls[id].onError, ExceededError(maxRetryAttempts))
    /\ \A id \in DOMAIN job :
          ( /\ hist[id].doneNoResult > 0
            /\ hist[id].doneResult = Undefined
            /\ hist[id].pollThrown = Undefined
            /\ Undisturbed(id)
            /\ Quiescent(id) )
          => /\ Len(calls[id].poll) = maxRetryAttempts + 1
             /\ job[id].retryCount = maxRetryAttempts + 1
             /\ job[id].state = FAILED
             /\ calls[id].complete = <<>>

\* C12 witness: with a ceiling of at least 1, every poll of a job reported done
\* without a result; the job, never aborted or cleaned up, was polled
\* maxRetryAttempts + 1 times and is FAILED with the retry-ceiling error.
C12_Witness ==
    \E id \in DOMAIN job :
        /\ maxRetryAttempts >= 1
        /\ hist[id].doneNoResult = maxRetryAttempts + 1
        /\ hist[id].notDone = 0
        /\ Undisturbed(id)
        /\ Len(calls[id].poll) = maxRetryAttempts + 1
        /\ job[id].state = FAILED
        /\ job[id].error = Some(ExceededError(maxRetryAttempts))

\* Every job other than id is the same in s as in the current state, and so is the
\* registry.
OthersUntouched(s, id) ==
    /\ s.jobs = jobs
    /\ \A other \in DOMAIN job \ {id} :
          /\ s.job[other] = job[other]
          /\ s.timers[other] = timers[other]
          /\ s.inflight[other] = inflight[other]
          /\ s.calls[other] = calls[other]

\* C13: a throwing onComplete leaves the job COMPLETED, with no error stored and
\* onError not invoked; a throwing onError leaves the job FAILED; neither step
\* touches another job; and a job with throwing callbacks that was never aborted or
\* cleaned up stays COMPLETED after its onComplete call and FAILED after its onError
\* call, with the other callback never invoked.
C13_CallbackThrowContained ==
    /\ \A id \in Pending("complete"), v \in FinalValues :
          (job[id].onComplete /\ job[id].throws) =>
              LET r == completeResolved(S, id, v)
              IN  /\ callOnComplete(S, id, v).thrown # Undefined
                  /\ r.job[id].state = COMPLETED
                  /\ r.job[id].finalResult = Some(v)
                  /\ r.job[id].error = job[id].error
                  /\ r.calls[id].onComplete = Append(calls[id].onComplete, v)
                  /\ r.calls[id].onError = calls[id].onError
                  /\ r.timers[id] = timers[id]
                  /\ OthersUntouched(r, id)
    /\ \A id \in jobs, e \in {ToError(x) : x \in CompleteThrows} :
          (job[id].onError /\ job[id].throws) =>
              LET r == handleJobError(S, id, e)
              IN  /\ callOnError(S, id, e).thrown # Undefined
                  /\ r.job[id].state = FAILED
                  /\ r.job[id].error = Some(e)
                  /\ r.calls[id].onError = Append(calls[id].onError, e)
                  /\ r.calls[id].onComplete = calls[id].onComplete
                  /\ r.timers[id] = timers[id]
                  /\ OthersUntouched(r, id)
    /\ \A id \in DOMAIN job :
          (job[id].throws /\ Undisturbed(id)) =>
              /\ calls[id].onComplete # <<>> =>
                    /\ job[id].state = COMPLETED
                    /\ Len(calls[id].onComplete) = 1
                    /\ calls[id].onError = <<>>
                    /\ job[id].error = Undefined
              /\ calls[id].onError # <<>> =>
                    /\ job[id].state = FAILED
                    /\ Len(calls[id].onError) = 1
                    /\ calls[id].onComplete = <<>>

\* C13 witness: two jobs with throwing callbacks, neither ever aborted or cleaned
\* up: the onComplete of one was called and threw, and the job is COMPLETED; the
\* onError of the other was called and threw, and the job is FAILED.
C13_Witness ==
    \E a, b \in DOMAIN job :
        /\ job[a].throws /\ job[b].throws
        /\ Undisturbed(a) /\ Undisturbed(b)
        /\ Len(calls[a].onComplete) = 1 /\ job[a].state = COMPLETED
        /\ Len(calls[b].onError) = 1 /\ job[b].state = FAILED

JobView(s, b) == <<s.job[b], b \in s.jobs, s.timers[b], s.inflight[b], s.calls[b]>>

\* State s with job a as the manager's only job: every other job is unregistered
\* and as good as never started.
Alone(s, a) ==
    [jobs |-> s.jobs \cap {a},
     job |-> [i \in DOMAIN s.job |-> IF i = a THEN s.job[i] ELSE NewJob(i, FALSE, FALSE, FALSE)],
     timers |-> [i \in DOMAIN s.job |-> IF i = a THEN s.timers[i] ELSE {}],
     inflight |-> [i \in DOMAIN s.job |-> IF i = a THEN s.inflight[i] ELSE NoInflight],
     calls |-> [i \in DOMAIN s.job |-> IF i = a THEN s.calls[i] ELSE NoCalls]]

\* r is what a step taken for job a made of the current state, r2 what the same step
\* made of the state with a alone: in r every other job is what it is now, and a is
\* in r what it is in r2.
Independent(r, r2, a) ==
    /\ \A b \in DOMAIN job \ {a} : JobView(r, b) = JobView(S, b)
    /\ JobView(r, a) = JobView(r2, a)

\* The poll responses, each with what a completeFn call made on it may do at once.
PollOutcomes ==
    {<<r, csync>> \in PollResponses \X SyncThrow(CompleteThrows) :
        csync = Undefined \/ (r.done /\ r.result # Undefined)}

\* C15: whatever step is taken for a job a (a timer of it firing, its trigger, poll
\* or complete call returning or failing, abortJob(a), cleanupJob(a)), every other
\* job b keeps its record (state, retryCount, stored results, timerId), its
\* registration, its pending timers, its calls in flight and its invocations, and
\* the step makes of a what it would make of it if a were the manager's only job;
\* and startJob changes no existing job.
C15_JobsIndependent ==
    /\ \A a \in DOMAIN job :
          LET alone == Alone(S, a)
          IN  /\ \A h \in timers[a], sync \in SyncThrow(PollThrows) :
                    Independent(timerCallback(S, a, h, sync), timerCallback(alone, a, h, sync), a)
              /\ inflight[a].trigger > 0 =>
                    /\ \A v \in TriggerValues :
                          Independent(triggerResolved(S, a, v), triggerResolved(alone, a, v), a)
                    /\ \A e \in TriggerThrows :
                          Independent(triggerRejected(S, a, e), triggerRejected(alone, a, e), a)
              /\ inflight[a].poll > 0 =>
                    /\ \A o \in PollOutcomes :
                          Independent(pollResolved(S, a, o[1], o[2]),
                                      pollResolved(alone, a, o[1], o[2]), a)
                    /\ \A e \in PollThrows :
                          Independent(pollRejected(S, a, e), pollRejected(alone, a, e), a)
              /\ inflight[a].complete > 0 =>
                    /\ \A v \in FinalValues :
                          Independent(completeResolved(S, a, v), completeResolved(alone, a, v), a)
                    /\ \A e \in CompleteThrows :
                          Independent(completeRejected(S, a, e), completeRejected(alone, a, e), a)
              /\ Independent(abortJob(S, a).s, abortJob(alone, a).s, a)
              /\ Independent(cleanupJob(S, a).s, cleanupJob(alone, a).s, a)
    /\ nextId \in JobIds =>
          \A cb \in Callbacks \cup ThrowingCallbacks, sync \in SyncThrow(TriggerThrows) :
              LET r == startJob(S, generateJobId, cb.onComplete, cb.onError, cb.throws, sync).s
              IN  \A b \in DOMAIN job : JobView(r, b) = JobView(S, b)

\* C15 witness: one job ran to COMPLETED while the other, started before it ended,
\* is still POLLING after one retry with its timer pending; neither was aborted or
\* cleaned up.
C15_Witness ==
    \E a, b \in jobs :
        /\ a # b
        /\ Undisturbed(a) /\ Undisturbed(b)
        /\ job[a].state = COMPLETED /\ job[a].finalResult # Undefined
        /\ job[b].state = POLLING /\ job[b].retryCount = 1
        /\ Cardinality(timers[b]) = 1

\* C16: a job never aborted or cleaned up whose trigger call has not returned is
\* PENDING, and a job that is POLLING has had its trigger return successfully and
\* has its triggerResult stored.
C16_PollingOnlyAfterTrigger ==
    \A id \in DOMAIN job :
        /\ (hist[id].trigger = "pending" /\ Undisturbed(id)) => job[id].state = PENDING
        /\ job[id].state = POLLING =>
              /\ hist[id].trigger = "resolved"
              /\ job[id].triggerResult # Undefined

\* C17: a new job has retryCount 0, and in every step the retryCount of a job grows
\* by the number of poll responses without a usable result (done = false, or done =
\* true with no result) the job got in that step if it is POLLING, and stays what
\* it is if the job has left POLLING; a failed poll call and a response done with a
\* result are counted in no case.
C17_RetryCountCountsPolls ==
    [][/\ \A id \in DOMAIN job' \ DOMAIN job : job'[id].retryCount = 0
       /\ \A id \in DOMAIN job :
             job'[id].retryCount =
                 job[id].retryCount
                 + (IF job[id].state = POLLING
                    THEN (hist'[id].notDone + hist'[id].doneNoResult)
                         - (hist[id].notDone + hist[id].doneNoResult)
                    ELSE 0)]_vars

\* C18: a job has at most one timer pending, and it is the one job.timerId names;
\* while a timer of the job is pending none of its trigger, poll or complete calls
\* is in flight, so the two steps that set a timer (the trigger returning, a poll
\* returning without a usable result) run only when no timer of the job is pending,
\* and leave at most one pending.
C18_AtMostOneTimer ==
    \A id \in DOMAIN job :
        /\ Cardinality(timers[id]) <= 1
        /\ timers[id] \subseteq {job[id].timerId}
        /\ timers[id] # {} => inflight[id] = NoInflight
        /\ inflight[id].trigger > 0 =>
              \A v \in TriggerValues :
                  Cardinality(triggerResolved(S, id, v).timers[id]) <= 1
        /\ inflight[id].poll > 0 =>
              \A o \in PollOutcomes :
                  Cardinality(pollResolved(S, id, o[1], o[2]).timers[id]) <= 1

\* C18 witness: the first timer of a job fired and its poll reported not done; the
\* second timer of the job is now its only pending one.
C18_Witness ==
    \E id \in jobs :
        /\ job[id].state = POLLING
        /\ job[id].retryCount = 1
        /\ job[id].timerId = 2
        /\ timers[id] = {2}

\* In state r, each of triggerResult, pollResult and finalResult of job id that is
\* set in the current state is what it is now.
ResultsKept(r, id) ==
    /\ job[id].triggerResult # Undefined => r.job[id].triggerResult = job[id].triggerResult
    /\ job[id].pollResult # Undefined => r.job[id].pollResult = job[id].pollResult
    /\ job[id].finalResult # Undefined => r.job[id].finalResult = job[id].finalResult

\* C19: once triggerResult is set no trigger call of the job is in flight; once
\* pollResult is set no poll call is in flight and no timer is pending; once
\* finalResult is set no complete call is in flight: nothing is left that assigns the
\* field again.  And no step taken for the job (a timer firing, a call returning or
\* failing, abortJob, cleanupJob) changes a result that is set.
C19_ResultsWriteOnce ==
    \A id \in DOMAIN job :
        /\ job[id].triggerResult # Undefined => inflight[id].trigger = 0
        /\ job[id].pollResult # Undefined => inflight[id].poll = 0 /\ timers[id] = {}
        /\ job[id].finalResult # Undefined => inflight[id].complete = 0
        /\ calls[id].trigger <= 1
        /\ Len(calls[id].complete) <= 1
        /\ \A h \in timers[id], sync \in SyncThrow(PollThrows) :
              ResultsKept(timerCallback(S, id, h, sync), id)
        /\ inflight[id].trigger > 0 =>
              /\ \A v \in TriggerValues : ResultsKept(triggerResolved(S, id, v), id)
              /\ \A e \in TriggerThrows : ResultsKept(triggerRejected(S, id, e), id)
        /\ inflight[id].poll > 0 =>
              /\ \A o \in PollOutcomes : ResultsKept(pollResolved(S, id, o[1], o[2]), id)
              /\ \A e \in PollThrows : ResultsKept(pollRejected(S, id, e), id)
        /\ inflight[id].complete > 0 =>
              /\ \A v \in FinalValues : ResultsKept(completeResolved(S, id, v), id)
              /\ \A e \in CompleteThrows : ResultsKept(completeRejected(S, id, e), id)
        /\ ResultsKept(abortJob(S, id).s, id)
        /\ ResultsKept(cleanupJob(S, id).s, id)

\* C19 witness: a job that was aborted while its poll call was in flight and cleaned
\* up while its complete call was in flight has all three results set.
C19_Witness ==
    \E id \in DOMAIN job :
        /\ hist[id].abortedLive /\ hist[id].cleaned
        /\ job[id].triggerResult # Undefined
        /\ job[id].pollResult # Undefined
        /\ job[id].finalResult # Undefined

\* C20: cleanupJob on an id that is not registered returns false and leaves the
\* manager state as it is; on a registered id, whatever the job's state, it returns
\* true, takes exactly that id out of the registry and leaves every other job as it
\* is, after which getJobState on the id returns null, getAllJobs does not list it
\* and a second cleanupJob on it returns false.
C20_CleanupRemovesExactlyTheJob ==
    \A id \in ApiIds :
        LET r == cleanupJob(S, id)
        IN  IF id \notin jobs
            THEN r = [s |-> S, ret |-> FALSE]
            ELSE /\ r.ret = TRUE
                 /\ r.s.jobs = jobs \ {id}
                 /\ \A other \in DOMAIN job \ {id} : JobView(r.s, other) = JobView(S, other)
                 /\ getJobState(r.s, id) = Undefined
                 /\ \A i \in 1..Len(getAllJobs(r.s)) : getAllJobs(r.s)[i].id # id
                 /\ Len(getAllJobs(r.s)) = Len(getAllJobs(S)) - 1
                 /\ cleanupJob(r.s, id) = [s |-> r.s, ret |-> FALSE]

\* C20 witness: a job was cleaned up after it had completed, while the other job is
\* registered and POLLING with its timer pending; getJobState on the cleaned-up id
\* returns null and on the other id POLLING.
C20_Witness ==
    \E id \in DOMAIN job \ jobs, other \in jobs :
        /\ hist[id].cleaned
        /\ job[id].state = COMPLETED
        /\ getJobState(S, id) = Undefined
        /\ cleanupJob(S, id).ret = FALSE
        /\ job[other].state = POLLING
        /\ timers[other] # {}
        /\ getJobState(S, other) = Some(POLLING)

\* C21: a job leaves the registry only by cleanupJob.  A job that was not cleaned
\* up is registered, whatever its state, and getJobState returns that state; a
\* step that is not a cleanupJob removes no id from the registry, and removes or
\* replaces no entry of the Map that the ids key.
C21_RemovedOnlyByCleanup ==
    /\ [](\A id \in Created :
             /\ id \in jobs <=> ~hist[id].cleaned
             /\ id \in jobs => getJobState(S, id) = Some(job[id].state))
    /\ [][/\ jobs \subseteq jobs' \/ CleanupJob
          /\ jobsById \subseteq jobsById' \/ CleanupJobId]_vars

\* C22: every startJob call returns an id that no earlier call of the manager
\* returned, so that the entry under an id is the job of the one call that
\* returned that id: no call stores its job over the entry of another.
C22_IdsNeverRepeat ==
    /\ \A i, j \in 1..Len(returned) : i # j => returned[i] # returned[j]
    /\ \A e \in jobsById : \A n \in 1..Len(returned) : returned[n] = e[1] => e[2] = n

\* C23: getJobState returns null for an id that startJob never returned and for
\* an id that cleanupJob removed, and the state of the job for a registered id;
\* an id that startJob returned and that is registered no more is never
\* registered again.
C23_AbsentStaysAbsent ==
    /\ [](/\ \A id \in ApiIds :
                /\ id \notin Created => getJobState(S, id) = Undefined
                /\ id \in Created /\ hist[id].cleaned => getJobState(S, id) = Undefined
                /\ id \in jobs => getJobState(S, id) = Some(job[id].state)
          /\ \A e \in jobsById : \E n \in 1..Len(returned) : returned[n] = e[1])
    /\ [][\A n \in 1..Len(returned) :
              ~registered(jobsById, returned[n]) => ~registered(jobsById', returned[n])]_vars

\* C24: getAllJobs returns one {id, state} entry for each registered job, holding
\* the id and the state the job has at the call, and no entry for a job that is
\* not registered, a cleaned-up one in particular.  The entries are values copied
\* at the call: the sequence returned in this state is this one whatever happens
\* next, and a call after a cleanupJob returns another, shorter one.
C24_GetAllJobsListsRegistered ==
    LET a == getAllJobs(S)
    IN  /\ Len(a) = Cardinality(jobs)
        /\ \A id \in jobs :
              \E i \in 1..Len(a) : a[i] = [id |-> job[id].id, state |-> job[id].state]
        /\ \A i \in 1..Len(a) : a[i].id \in jobs /\ ~hist[a[i].id].cleaned
        /\ \A i, j \in 1..Len(a) : i # j => a[i].id # a[j].id
        /\ \A id \in jobs :
              LET b == getAllJobs(cleanupJob(S, id).s)
              IN  /\ Len(b) = Len(a) - 1
                  /\ \A i \in 1..Len(b) : b[i].id # id
                  /\ \E i \in 1..Len(a) : a[i].id = id

\* Two jobs were started; the first was cleaned up, the second has completed:
\* getAllJobs returns the one entry of the second.
C24_Witness ==
    /\ Len(job) = 2
    /\ hist[1].cleaned
    /\ getAllJobs(S) = <<[id |-> 2, state |-> COMPLETED]>>

\* C25: getJobState and getAllJobs only read.  A call of either, for any id,
\* leaves the registry, every job's state, retryCount, results, error and timer
\* handle, the pending timers and calls, and the record of callback invocations
\* as they are.
C25_ReadsChangeNothing ==
    /\ \A id \in ApiIds :
          LET r == getJobStateCall(S, id).s
          IN  /\ r.jobs = jobs
              /\ r.job = job
              /\ r.timers = timers
              /\ r.inflight = inflight
              /\ r.calls = calls
    /\ LET r == getAllJobsCall(S).s
       IN  /\ r.jobs = jobs
           /\ r.job = job
           /\ r.timers = timers
           /\ r.inflight = inflight
           /\ r.calls = calls

\* Both reads are made while one job waits on its timer after a poll that was not
\* done and another job has failed.
C25_Witness ==
    /\ Len(job) = 2
    /\ jobs = {1, 2}
    /\ timers[1] # {}
    /\ job[1].retryCount > 0
    /\ job[2].state = FAILED
    /\ getJobStateCall(S, 1).ret = Some(POLLING)
    /\ Len(getAllJobsCall(S).ret) = 2

\* C26: whatever value the trigger resolves to, a falsy one included, the trigger
\* counts as succeeded.  For a job that was never aborted or cleaned up and whose
\* trigger has resolved: the value is stored, the job has not failed with 'Trigger
\* result is undefined', and once its first timer has fired pollFn has been invoked,
\* every time with exactly that value.
C26_AnyTriggerValueIsPolled ==
    \A id \in Created :
        hist[id].trigger = "resolved" /\ Undisturbed(id) =>
            /\ job[id].triggerResult # Undefined
            /\ job[id].error # Some(TriggerUndefinedError)
            /\ job[id].timerId >= 1 /\ 1 \notin timers[id] =>
                  /\ calls[id].poll # <<>>
                  /\ \A i \in 1..Len(calls[id].poll) :
                        calls[id].poll[i] = job[id].triggerResult[1]

\* C27: whenever a poll call returns done = true with a defined result, a falsy
\* one included, completeFn is invoked with exactly that result, and the job is
\* COMPLETED once that call has succeeded.  For a job never aborted or cleaned up.
C27_AnyPollResultIsCompleted ==
    \A id \in Created :
        hist[id].doneResult # Undefined /\ Undisturbed(id) =>
            /\ calls[id].complete = hist[id].doneResult
            /\ job[id].error # Some(PollUndefinedError)
            /\ hist[id].completeResolved # Undefined => job[id].state = COMPLETED

\* The values the job's trigger, poll and complete calls threw or rejected with.
ThrownBy(id) ==
    {x[1] : x \in {hist[id].triggerThrown, hist[id].pollThrown, hist[id].completeThrown} \ {Undefined}}

\* The errors the manager itself raises for a job.
RaisedFor(id) == {TriggerUndefinedError, PollUndefinedError, ExceededError(maxRetryAttempts)}

\* What C28 says of the job's error and onError, for the set of causing errors
\* given: a FAILED job has an error stored and onError, when provided, was invoked
\* once, with the stored error; onError was invoked only for a job that was set to
\* FAILED (and possibly aborted since), and never twice; the stored error is one
\* of the causing errors.
FailureReported(id, causes) ==
    /\ job[id].state = FAILED =>
          /\ job[id].error # Undefined
          /\ calls[id].onError = IF job[id].onError THEN job[id].error ELSE <<>>
    /\ calls[id].onError # <<>> =>
          /\ calls[id].onError = job[id].error
          /\ job[id].state = FAILED \/ hist[id].aborted
    /\ job[id].error # Undefined => job[id].error[1] \in causes
    \* the step itself: handleJobError sets FAILED, stores the error and invokes
    \* onError with it, all three or (for a job not registered) none
    /\ \A e \in RaisedFor(id) :
          LET r == handleJobError(S, id, e)
          IN  IF id \in jobs
              THEN /\ r.job[id].state = FAILED
                   /\ r.job[id].error = Some(e)
                   /\ r.calls[id].onError =
                         IF job[id].onError THEN Append(calls[id].onError, e) ELSE calls[id].onError
              ELSE r = S

\* C28 as stated: every transition into FAILED stores the causing error, the very
\* value the failing call threw or rejected with or the error the manager raised,
\* and invokes onError, when provided, once with that same error; onError is not
\* invoked otherwise.
C28_AsStated ==
    \A id \in Created : FailureReported(id, ThrownBy(id) \cup RaisedFor(id))

\* C28 amended: as C28, but a thrown or rejected value v that is not an Error is
\* stored, and passed to onError, as new Error(String(v)).
C28_FailureStoresAndReports ==
    \A id \in Created :
        FailureReported(id, {ToError(v) : v \in ThrownBy(id)} \cup RaisedFor(id))

\* C28 witness: one job failed on the retry ceiling, another on a trigger that
\* rejected with a value that is not an Error; both had onError invoked once.
C28_Witness ==
    /\ Len(job) = 2
    /\ job[1].state = FAILED /\ job[2].state = FAILED
    /\ calls[1].onError = <<ExceededError(maxRetryAttempts)>>
    /\ hist[2].triggerThrown = Some(NonError("boom"))
    /\ calls[2].onError = <<MkError("boom")>>

\* C29: pollFn is invoked only by a timer of the job that fires.  Each invocation
\* used up a timer of its own: the invocations are at most the timers set and no
\* longer pending, and exactly those for a job never aborted or cleaned up whose
\* trigger value is truthy; a timer was set only on trigger success and on a poll
\* response without a usable result.  The trigger returning and a poll returning
\* invoke pollFn themselves for no value and no response.  abortJob applied while
\* a timer is pending leaves no timer and no call of the job pending and invokes
\* nothing, so nothing is left that could invoke pollFn.
C29_PollOnlyOnTimer ==
    \A id \in Created :
        /\ Len(calls[id].poll) <= job[id].timerId - Cardinality(timers[id])
        /\ Undisturbed(id) /\ ~NotT(job[id].triggerResult) =>
              Len(calls[id].poll) = job[id].timerId - Cardinality(timers[id])
        /\ job[id].timerId <=
              (IF hist[id].trigger = "resolved" THEN 1 ELSE 0)
                  + hist[id].notDone + hist[id].doneNoResult
        /\ inflight[id].trigger > 0 =>
              \A v \in TriggerValues :
                  LET r == triggerResolved(S, id, v)
                  IN  r.calls[id].poll = calls[id].poll /\ r.inflight[id].poll = 0
        /\ inflight[id].poll > 0 =>
              \A o \in PollOutcomes :
                  LET r == pollResolved(S, id, o[1], o[2])
                  IN  r.calls[id].poll = calls[id].poll /\ r.inflight[id].poll = 0
        /\ id \in jobs /\ timers[id] # {} =>
              LET r == abortJob(S, id).s
              IN  /\ r.timers[id] = {}
                  /\ r.inflight[id] = NoInflight
                  /\ r.calls[id] = calls[id]
        /\ hist[id].aborted => timers[id] = {}

\* C29 witness: the first timer of a job fired and its poll reported not done;
\* the job was aborted while its second timer was pending: pollFn was invoked
\* once, for the first timer, and nothing of the job is pending.
C29_Witness ==
    \E id \in jobs :
        /\ hist[id].abortedLive
        /\ job[id].state = ABORTED
        /\ job[id].timerId = 2
        /\ job[id].retryCount = 1
        /\ Len(calls[id].poll) = 1
        /\ Quiescent(id)

\* C30: with maxRetryAttempts finite, no abortJob or cleanupJob called, every
\* trigger, poll and complete call returning or failing in the end and every
\* timer firing in the end, a job that was started is COMPLETED or FAILED from
\* some point on, and never leaves that state.
C30_EventuallyCompletedOrFailed ==
    /\ \A id \in JobIds :
          (id \in Created) ~> (id \in Created /\ job[id].state \in {COMPLETED, FAILED})
    /\ [][\A id \in Created :
              job[id].state \in {COMPLETED, FAILED} => job'[id].state = job[id].state]_vars

\* C30 witness: of two jobs never aborted or cleaned up, one polled until the retry
\* ceiling and is FAILED, the other is COMPLETED; nothing of either is pending.
C30_Witness ==
    /\ Len(job) = 2
    /\ \A id \in {1, 2} : Undisturbed(id) /\ Quiescent(id)
    /\ job[1].state = FAILED
    /\ job[1].error = Some(ExceededError(maxRetryAttempts))
    /\ job[2].state = COMPLETED

\* C31: cleanupJob on a job in state POLLING first aborts it: the step leaves the
\* job ABORTED with no pending timer; and a job that cleanupJob has removed has no
\* pending timer in any later state, so none fires, and pollFn is not called for
\* it again.
C31_CleanupCancelsTimer ==
    /\ [](\A id \in Created : hist[id].cleaned => timers[id] = {})
    /\ [][\A id \in Created :
            /\ (id \in jobs /\ id \notin jobs' /\ job[id].state = POLLING)
                   => job'[id].state = ABORTED /\ timers'[id] = {}
            /\ hist[id].cleaned => calls'[id].poll = calls[id].poll]_vars

\* A job cleaned up while its first timer was pending: the timer was set (timerId
\* = 1), pollFn was never called, nothing is in flight, and abortJob was not
\* called by the caller, so it was cleanupJob that made the job ABORTED.
C31_Witness ==
    \E id \in Created :
        /\ hist[id].cleaned /\ ~hist[id].aborted
        /\ job[id].state = ABORTED
        /\ job[id].timerId = 1
        /\ calls[id].poll = <<>>
        /\ inflight[id] = NoInflight
        /\ timers[id] = {}

\* C32: once cleanupJob has removed a job, no step invokes its onComplete, its
\* onError or its completeFn, whatever call of the job was in flight at cleanup.
C32_NoCallsAfterCleanup ==
    [][\A id \in Created :
          hist[id].cleaned =>
              /\ calls'[id].onComplete = calls[id].onComplete
              /\ calls'[id].onError = calls[id].onError
              /\ calls'[id].complete = calls[id].complete]_vars

\* C33: in every reachable state a job with a pending timer is registered and in
\* state POLLING: no COMPLETED, FAILED or ABORTED job and no removed job has one.
C33_TimerOnlyWhilePolling ==
    \A id \in Created :
        timers[id] # {} => id \in jobs /\ job[id].state = POLLING

\* One job is POLLING with its timer pending, and another one, whose timer was
\* set and never fired (pollFn was not called, nothing is in flight), is ABORTED
\* and has no timer any more.
C33_Witness ==
    \E id, id2 \in Created :
        /\ timers[id] # {} /\ job[id].state = POLLING
        /\ job[id2].state = ABORTED
        /\ job[id2].timerId = 1
        /\ calls[id2].poll = <<>>
        /\ inflight[id2] = NoInflight
        /\ timers[id2] = {}

\* C34: for every job, whatever is interleaved with abortJob and cleanupJob, the
\* invocations of onComplete and of onError number at most one together: a job
\* reports neither both outcomes nor one outcome twice.
C34_AtMostOneReport ==
    \A id \in Created :
        Len(calls[id].onComplete) + Len(calls[id].onError) <= 1

\* Two jobs that abortJob was applied to have each reported once: one its
\* success, to an onComplete that threw, and the other its failure.
C34_Witness ==
    \E id, id2 \in Created :
        /\ job[id].throws /\ Len(calls[id].onComplete) = 1 /\ calls[id].onError = <<>>
        /\ hist[id].aborted
        /\ Len(calls[id2].onError) = 1 /\ calls[id2].onComplete = <<>>
        /\ hist[id2].aborted

\* C35: for every job at most one call of triggerFn, pollFn or completeFn is in
\* flight at any time, and no timer of the job is pending while one is; pollFn
\* is invoked (and a timer set) only after the trigger has returned, and
\* completeFn only once, with the result of a poll response that was done with
\* a result.
C35_OneStageAtATime ==
    \A id \in Created :
        LET n == inflight[id].trigger + inflight[id].poll + inflight[id].complete
        IN  /\ n <= 1
            /\ n = 1 => timers[id] = {}
            /\ (calls[id].poll # <<>> \/ timers[id] # {} \/ inflight[id].poll > 0)
                   => hist[id].trigger = "resolved" /\ inflight[id].trigger = 0
            /\ (calls[id].complete # <<>> \/ inflight[id].complete > 0)
                   => /\ hist[id].doneResult # Undefined
                      /\ calls[id].complete = <<hist[id].doneResult[1]>>
                      /\ inflight[id].poll = 0

\* completeFn of a job is in flight after two polls, the first of which was not
\* done, while another job has its pollFn in flight.
C35_Witness ==
    \E id, id2 \in Created :
        /\ inflight[id].complete = 1
        /\ Len(calls[id].poll) = 2 /\ hist[id].notDone = 1
        /\ inflight[id2].poll = 1

====
